---- MODULE Spec2Model ----
(***************************************************************************)
(* Big Bag Of Words (src/src/lib.rs).                                      *)
(*                                                                         *)
(* A text is a sequence of Unicode code points (natural numbers).  Byte    *)
(* order of UTF-8 strings is code point order, so the order of `str` that  *)
(* the BTreeMap uses is the lexicographic order of these sequences.        *)
(* The bag is the BTreeMap as the sequence of its entries in key order.    *)
(* Cow::Borrowed and Cow::Owned keys compare and hash by their contents,   *)
(* so a key is modelled by its contents alone.                             *)
(***************************************************************************)
EXTENDS Naturals, Integers, Sequences, FiniteSets, TLC

VARIABLES
    bag,        \* Bbow.0 : the entries [key, val] of the BTreeMap, in key order
    call,       \* the most recent call: [op, arg, ret]
    out,        \* the lines written to standard output so far
    panicked,   \* TRUE once a call has panicked (the program is aborted)
    fed         \* number of characters of text ingested so far

vars == <<bag, call, out, panicked, fed>>

(***************************************************************************)
(* Bounds of the model.                                                    *)
(***************************************************************************)
\* total length of the texts handed to extend_from_text in one run
MaxChars == 3
\* number of lines standard output may hold before count() is no longer called
MaxOut == 2
\* longest keyword probed by match_count that is not a stored key
MaxKeyword == 1

(***************************************************************************)
(* Characters.  The input alphabet holds one or two representatives of     *)
(* each class the code tells apart:                                        *)
(*    32  SPACE                      whitespace                            *)
(*    33  !   46  .                  punctuation of the trimmed set        *)
(*    45  -                          neither letter nor trimmed            *)
(*    97  a   98  b                  lowercase letters                     *)
(*    65  A                          uppercase letter, lowercase a         *)
(*   453  U+01C5 (titlecase Dz)      letter, not uppercase, lowercase 454  *)
(*   454  U+01C6 (small dz)          lowercase letter                      *)
(*   304  U+0130 (I with dot above)  uppercase letter, lowercase 105 775   *)
(* 775 is U+0307 COMBINING DOT ABOVE (a mark, not alphabetic).             *)
(***************************************************************************)
Alphabet == {32, 33, 45, 46, 65, 97, 98, 304, 453, 454}

\* char::is_whitespace (White_Space), restricted to code points below 1024
is_whitespace(c) == c \in {9, 10, 11, 12, 13, 32, 133, 160}

\* char::is_alphabetic (Alphabetic), on the code points that can occur
is_alphabetic(c) == c \in (65..90) \cup (97..122) \cup {304, 452, 453, 454}

\* char::is_uppercase (Uppercase), on the code points that can occur
is_uppercase(c) == c \in (65..90) \cup {304, 452}

\* char::to_lowercase: the lowercase mapping of one character
char_to_lowercase(c) ==
    IF c \in 65..90 THEN <<c + 32>>
    ELSE IF c = 304 THEN <<105, 775>>
    ELSE IF c \in {452, 453} THEN <<454>>
    ELSE <<c>>

\* let punctuation = ["!", ".", ",", "?", "/", ";", ":", "'"], in this order
punctuation == <<33, 46, 44, 63, 47, 59, 58, 39>>

(***************************************************************************)
(* Pure functions of lib.rs.                                               *)
(***************************************************************************)
\* str::split_whitespace: the maximal runs of non-whitespace characters
RECURSIVE SplitFrom(_, _, _, _)
SplitFrom(text, i, cur, acc) ==
    IF i > Len(text)
    THEN IF cur = <<>> THEN acc ELSE Append(acc, cur)
    ELSE IF is_whitespace(text[i])
         THEN SplitFrom(text, i + 1, <<>>,
                        IF cur = <<>> THEN acc ELSE Append(acc, cur))
         ELSE SplitFrom(text, i + 1, Append(cur, text[i]), acc)

split_whitespace(text) == SplitFrom(text, 1, <<>>, <<>>)

\* str::trim_end_matches with a one-character pattern
RECURSIVE trim_end_matches(_, _)
trim_end_matches(s, p) ==
    IF s # <<>> /\ s[Len(s)] = p
    THEN trim_end_matches(SubSeq(s, 1, Len(s) - 1), p)
    ELSE s

\* str::trim_start_matches with a one-character pattern
RECURSIVE trim_start_matches(_, _)
trim_start_matches(s, p) ==
    IF s # <<>> /\ s[1] = p
    THEN trim_start_matches(Tail(s), p)
    ELSE s

\* for p in punctuation { part = trim_end; part = trim_start }, from entry i on
RECURSIVE TrimLoop(_, _)
TrimLoop(part, i) ==
    IF i > Len(punctuation)
    THEN part
    ELSE TrimLoop(trim_start_matches(trim_end_matches(part, punctuation[i]),
                                     punctuation[i]), i + 1)

\* the value of `part` when the loop over punctuation is done
trimmed(parts) == TrimLoop(parts, 1)

\* is_word with chars().any in place of chars().all
is_word_any(word) ==
    word # <<>> /\ \E i \in 1..Len(word) : is_alphabetic(word[i])

is_word(word) ==
    word # <<>> /\ \A i \in 1..Len(word) : is_alphabetic(word[i])

has_uppercase(word) == \E i \in 1..Len(word) : is_uppercase(word[i])

\* str::to_lowercase
RECURSIVE to_lowercase(_)
to_lowercase(word) ==
    IF word = <<>> THEN <<>>
    ELSE char_to_lowercase(Head(word)) \o to_lowercase(Tail(word))

\* Ord for str: lexicographic comparison
StrLess(a, b) ==
    \E i \in 1..(Len(a) + 1) :
        /\ \A j \in 1..(i - 1) : j <= Len(b) /\ a[j] = b[j]
        /\ \/ i = Len(a) + 1 /\ Len(b) >= i
           \/ i <= Len(a) /\ i <= Len(b) /\ a[i] < b[i]

(***************************************************************************)
(* The map.                                                                *)
(***************************************************************************)
KeySet(m) == {m[i].key : i \in 1..Len(m)}

\* the value stored for key k, 0 when k is absent
Get(m, k) ==
    IF k \in KeySet(m)
    THEN (m[CHOOSE i \in 1..Len(m) : m[i].key = k]).val
    ELSE 0

\* entry_increment with a map that keeps insertion order (a new key goes last)
entry_append(m, k) ==
    IF k \in KeySet(m)
    THEN [i \in 1..Len(m) |->
             IF m[i].key = k THEN [key |-> k, val |-> m[i].val + 1] ELSE m[i]]
    ELSE Append(m, [key |-> k, val |-> 1])

\* entry_increment with and_modify(|curr| *curr = 1): a stored count is reset
entry_reset(m, k) ==
    IF k \in KeySet(m)
    THEN [i \in 1..Len(m) |->
             IF m[i].key = k THEN [key |-> k, val |-> 1] ELSE m[i]]
    ELSE LET n == Cardinality({i \in 1..Len(m) : StrLess(m[i].key, k)})
         IN  SubSeq(m, 1, n) \o <<[key |-> k, val |-> 1]>>
                             \o SubSeq(m, n + 1, Len(m))

\* entry_increment with or_insert(0): a new key starts at 0
entry_insert_zero(m, k) ==
    IF k \in KeySet(m)
    THEN [i \in 1..Len(m) |->
             IF m[i].key = k THEN [key |-> k, val |-> m[i].val + 1] ELSE m[i]]
    ELSE LET n == Cardinality({i \in 1..Len(m) : StrLess(m[i].key, k)})
         IN  SubSeq(m, 1, n) \o <<[key |-> k, val |-> 0]>>
                             \o SubSeq(m, n + 1, Len(m))

\* self.0.entry(k).and_modify(|curr| *curr += 1).or_insert(1)
entry_increment(m, k) ==
    IF k \in KeySet(m)
    THEN [i \in 1..Len(m) |->
             IF m[i].key = k THEN [key |-> k, val |-> m[i].val + 1] ELSE m[i]]
    ELSE LET n == Cardinality({i \in 1..Len(m) : StrLess(m[i].key, k)})
         IN  SubSeq(m, 1, n) \o <<[key |-> k, val |-> 1]>>
                             \o SubSeq(m, n + 1, Len(m))

\* the body of `for parts in string_parts`
add_part(m, parts) ==
    LET part == trimmed(parts)
    IN  IF is_word(part)
        THEN IF has_uppercase(part)
             THEN entry_increment(m, to_lowercase(part))
             ELSE entry_increment(m, part)
        ELSE m

RECURSIVE AddParts(_, _, _)
AddParts(m, string_parts, i) ==
    IF i > Len(string_parts) THEN m
    ELSE AddParts(add_part(m, string_parts[i]), string_parts, i + 1)

extend_from_text(self, target) == AddParts(self, split_whitespace(target), 1)

\* Bbow::new
new == <<>>

\* the sequence words() yields
words(self) == [i \in 1..Len(self) |-> self[i].key]

\* the values count() visits, in order; each is printed on a line of its own
values(self) == [i \in 1..Len(self) |-> self[i].val]

RECURSIVE SumSeq(_)
SumSeq(s) == IF s = <<>> THEN 0 ELSE Head(s) + SumSeq(Tail(s))

\* the value count() returns
count(self) == SumSeq(values(self))

len(self) == Len(self)

is_empty(self) == Len(self) = 0

(***************************************************************************)
(* The calls.                                                              *)
(***************************************************************************)
Init ==
    /\ bag = new
    /\ call = [op |-> "new", arg |-> <<>>, ret |-> <<>>]
    /\ out = <<>>
    /\ panicked = FALSE
    /\ fed = 0

ExtendFromText ==
    /\ ~panicked
    /\ \E n \in 0..(MaxChars - fed) :
         \E target \in [1..n -> Alphabet] :
            /\ bag' = extend_from_text(bag, target)
            /\ call' = [op |-> "extend_from_text", arg |-> target, ret |-> <<>>]
            /\ fed' = fed + n
    /\ UNCHANGED <<out, panicked>>

\* self.0[keyword]: Index panics when the key is absent
MatchCount ==
    /\ ~panicked
    /\ \E n \in 0..MaxKeyword :
         \E keyword \in KeySet(bag) \cup [1..n -> Alphabet] :
            IF keyword \in KeySet(bag)
            THEN /\ call' = [op |-> "match_count", arg |-> keyword,
                             ret |-> Get(bag, keyword)]
                 /\ UNCHANGED panicked
            ELSE /\ call' = [op |-> "match_count", arg |-> keyword, ret |-> <<>>]
                 /\ panicked' = TRUE
    /\ UNCHANGED <<bag, out, fed>>

Words ==
    /\ ~panicked
    /\ call' = [op |-> "words", arg |-> <<>>, ret |-> words(bag)]
    /\ UNCHANGED <<bag, out, panicked, fed>>

\* println!("{}", value) for each value, then the total
Count ==
    /\ ~panicked
    /\ Len(out) + Len(bag) <= MaxOut
    /\ out' = out \o values(bag)
    /\ call' = [op |-> "count", arg |-> <<>>, ret |-> count(bag)]
    /\ UNCHANGED <<bag, panicked, fed>>

LenCall ==
    /\ ~panicked
    /\ call' = [op |-> "len", arg |-> <<>>, ret |-> len(bag)]
    /\ UNCHANGED <<bag, out, panicked, fed>>

IsEmpty ==
    /\ ~panicked
    /\ call' = [op |-> "is_empty", arg |-> <<>>, ret |-> is_empty(bag)]
    /\ UNCHANGED <<bag, out, panicked, fed>>

Next ==
    \/ ExtendFromText
    \/ MatchCount
    \/ Words
    \/ Count
    \/ LenCall
    \/ IsEmpty

Spec == Init /\ [][Next]_vars

(***************************************************************************)
(* The tokenization protocol as the specification words it, for the        *)
(* claims that compare the code with it.                                   *)
(***************************************************************************)
IsPunctuation(c) == \E i \in 1..Len(punctuation) : punctuation[i] = c

RECURSIVE StripLeading(_)
StripLeading(s) ==
    IF s # <<>> /\ IsPunctuation(s[1]) THEN StripLeading(Tail(s)) ELSE s

RECURSIVE StripTrailing(_)
StripTrailing(s) ==
    IF s # <<>> /\ IsPunctuation(s[Len(s)])
    THEN StripTrailing(SubSeq(s, 1, Len(s) - 1))
    ELSE s

\* the fragment without ALL its leading and ALL its trailing punctuation
StripAll(fragment) == StripTrailing(StripLeading(fragment))

\* a word of the protocol: non-empty and all letters after stripping
SpecQualifies(fragment) ==
    LET s == StripAll(fragment)
    IN  s # <<>> /\ \A i \in 1..Len(s) : is_alphabetic(s[i])

\* after stripping, some character that is not a letter is left
Disqualified(fragment) ==
    LET s == StripAll(fragment)
    IN  \E i \in 1..Len(s) : ~is_alphabetic(s[i])

SpecWordCount(text) ==
    LET fr == split_whitespace(text)
    IN  Cardinality({i \in 1..Len(fr) : SpecQualifies(fr[i])})

\* the fragments the code counts: is_word holds of the string it tests
CodeWordCount(text) ==
    LET fr == split_whitespace(text)
    IN  Cardinality({i \in 1..Len(fr) : is_word(trimmed(fr[i]))})

\* the sum of the stored counts, key by key
RECURSIVE SumOver(_, _)
SumOver(S, m) ==
    IF S = {} THEN 0
    ELSE LET k == CHOOSE x \in S : TRUE
         IN  Get(m, k) + SumOver(S \ {k}, m)

Total(m) == SumOver(KeySet(m), m)

Extended == call.op = "extend_from_text"

\* the call just made was extend_from_text on a bag that was still empty
\* (every earlier text, if any, was the empty text)
ExtendedFromEmpty == Extended /\ fed = Len(call.arg)

(***************************************************************************)
(* C1: match_count(keyword) returns the stored count of a stored key, and  *)
(* returns 0 without aborting for a keyword that is not a stored key.      *)
(***************************************************************************)
C1_MatchCountTotal ==
    call.op = "match_count" =>
        /\ ~panicked
        /\ call.ret = Get(bag, call.arg)

(***************************************************************************)
(* C2: the string extend_from_text tests for word-hood is the fragment     *)
(* with all its leading and all its trailing punctuation removed, in       *)
(* whatever order the punctuation characters stand at the ends.            *)
(***************************************************************************)
C2_StripsAllPunctuation ==
    Extended =>
        LET fr == split_whitespace(call.arg)
        IN  \A i \in 1..Len(fr) : trimmed(fr[i]) = StripAll(fr[i])

(***************************************************************************)
(* C3: count() returns the sum of the stored counts and performs no I/O:   *)
(* it leaves the bag and the output stream unchanged, and so do            *)
(* extend_from_text and the other queries (no call writes output).         *)
(***************************************************************************)
C3_CountPure ==
    [][/\ out' = out
       /\ call'.op = "count" => (call'.ret = Total(bag) /\ bag' = bag)]_vars

(***************************************************************************)
(* C4: for a text ingested into an empty bag, count() is the number of     *)
(* fragments of the text that are words under the protocol (all leading    *)
(* and trailing punctuation stripped, then non-empty and all letters).     *)
(***************************************************************************)
C4_CountIsSpecWordCount ==
    ExtendedFromEmpty => count(bag) = SpecWordCount(call.arg)

(***************************************************************************)
(* C5: words() yields every stored key exactly once, in strictly ascending *)
(* lexicographic order, len() items in all, leaves the bag unchanged, and  *)
(* yields the same sequence when enumerated again.                         *)
(***************************************************************************)
C5_WordsAscending ==
    [][call'.op = "words" =>
         LET w == call'.ret
         IN  /\ bag' = bag
             /\ Len(w) = len(bag)
             /\ {w[i] : i \in 1..Len(w)} = KeySet(bag)
             /\ \A i, j \in 1..Len(w) : i < j => StrLess(w[i], w[j])
             /\ call.op = "words" => call'.ret = call.ret]_vars

\* words() has enumerated a bag of two keys or more
C5_Witness == call.op = "words" /\ Len(call.ret) >= 2

(***************************************************************************)
(* C6: ingestion accumulates: after extend_from_text(t) every key's count  *)
(* is its count before the call plus its count in new().extend_from_text(t)*)
(* (absent counted as 0), and the key set is the union of the two key      *)
(* sets; for the bag new().extend_from_text(t1) this is the chained bag of *)
(* t1 and t2 = t.                                                          *)
(***************************************************************************)
C6_ChainedAccumulates ==
    [][call'.op = "extend_from_text" =>
         LET alone == extend_from_text(new, call'.arg)
         IN  /\ KeySet(bag') = KeySet(bag) \cup KeySet(alone)
             /\ \A k \in KeySet(bag') :
                    Get(bag', k) = Get(bag, k) + Get(alone, k)]_vars

\* a one-character text was ingested after other text and its key now counts 2
C6_Witness ==
    /\ Extended
    /\ Len(call.arg) = 1
    /\ fed > 1
    /\ \E i \in 1..Len(bag) : bag[i].val >= 2 /\ bag[i].key = to_lowercase(call.arg)

(***************************************************************************)
(* C7: two qualifying fragments that differ only in the case of their      *)
(* letters are counted under one single key, the all-lowercase form.       *)
(***************************************************************************)
C7_CaseCollapses ==
    ExtendedFromEmpty =>
        LET fr == split_whitespace(call.arg)
            w(i) == trimmed(fr[i])
            same(i) == {j \in 1..Len(fr) :
                          is_word(w(j)) /\ to_lowercase(w(j)) = to_lowercase(w(i))}
        IN  \A i, j \in 1..Len(fr) :
               (/\ is_word(w(i)) /\ is_word(w(j))
                /\ w(i) # w(j)
                /\ to_lowercase(w(i)) = to_lowercase(w(j)))
               => /\ Get(bag, to_lowercase(w(i))) = Cardinality(same(i))
                  /\ \A k \in KeySet(bag) :
                        to_lowercase(k) = to_lowercase(w(i))
                            => k = to_lowercase(w(i))

(***************************************************************************)
(* C8: a fragment that still holds a non-letter after its leading and      *)
(* trailing punctuation is stripped is discarded whole: it changes no      *)
(* count, adds no key, and no part of it is counted.                       *)
(***************************************************************************)
C8_InteriorNonLetterDiscards ==
    [][call'.op = "extend_from_text" =>
         LET fr == split_whitespace(call'.arg)
             kept == {i \in 1..Len(fr) : ~Disqualified(fr[i])}
         IN  /\ Total(bag') - Total(bag) <= Cardinality(kept)
             /\ Len(bag') - Len(bag) <= Cardinality(kept)
             /\ kept = {} => bag' = bag]_vars

\* a text with a fragment such as a-b (letters around a non-letter) was ingested
C8_Witness ==
    /\ Extended
    /\ LET fr == split_whitespace(call.arg)
       IN  \E i \in 1..Len(fr) :
              /\ Disqualified(fr[i])
              /\ is_alphabetic(fr[i][1])
              /\ is_alphabetic(fr[i][Len(fr[i])])

(***************************************************************************)
(* C9: every stored key is non-empty, consists of letters only, holds no   *)
(* punctuation character and no uppercase letter.                          *)
(***************************************************************************)
C9_KeysAreLowercaseWords ==
    \A i \in 1..Len(bag) :
        LET k == bag[i].key
        IN  /\ k # <<>>
            /\ \A j \in 1..Len(k) :
                  /\ is_alphabetic(k[j])
                  /\ ~IsPunctuation(k[j])
                  /\ ~is_uppercase(k[j])

====
